---- MODULE Spec2Model ----
(***************************************************************************)
(* http-async-svc (src/lib/index.ts): the response materialization of      *)
(* http(), the six verb facades and their curried forms, as a state        *)
(* machine.  A caller applies facades; the injected transport answers or   *)
(* fails; the response's json() settles; the caller observes the outcome.  *)
(*                                                                         *)
(* Encoding of JavaScript values: an optional value (undefined / null, or  *)
(* an omitted argument) is the empty sequence, a present value v is <<v>>. *)
(***************************************************************************)
EXTENDS Integers, Sequences, FiniteSets, TLC

VARIABLES
    closures,   \* the partially applied curried facades the caller holds
    calls,      \* the calls to http() in progress or settled, not yet observed
    env         \* the name of the run's surroundings: the transports,
                \* headers and del bodies the caller can pass and the
                \* responses the transports give; no step changes it

vars == <<closures, calls, env>>

\* ------------------------------------------------------------------ bounds
\* Largest numeric request body the caller supplies (0..MaxNum).
MaxNum == 0
\* How many closures of one curried facade the caller holds at once.
MaxClosures == 1
\* How many callers are at work at once, each with one call in flight.
MaxCallers == 2

\* ---------------------------------------------------------- optional values
None == <<>>
Some(v) == <<v>>

\* A default parameter value: `param = dflt` takes dflt when the argument is
\* undefined.
Default(arg, dflt) == IF arg = None THEN dflt ELSE arg[1]

\* JavaScript truthiness of a `string | null`: null and "" are falsy.
Truthy(opt) == opt /= None /\ opt[1] /= ""

\* ------------------------------------------------------------- JSON values
\* t: the type; s / n: the string / number payload; k, vt: the key and the
\* member type of a one-member object.
JStr(s) == [t |-> "string", k |-> "", vt |-> "", s |-> s, n |-> 0]
JNum(n) == [t |-> "number", k |-> "", vt |-> "", s |-> "", n |-> n]
JNull == [t |-> "null", k |-> "", vt |-> "", s |-> "", n |-> 0]
JFalse == [t |-> "boolean", k |-> "", vt |-> "", s |-> "false", n |-> 0]
JEmptyObj == [t |-> "object", k |-> "", vt |-> "", s |-> "", n |-> 0]
JObjS(k, s) == [t |-> "object", k |-> k, vt |-> "string", s |-> s, n |-> 0]
JObjN(k, n) == [t |-> "object", k |-> k, vt |-> "number", s |-> "", n |-> n]

Quote(s) == "\"" \o s \o "\""

\* String(value) in place of JSON.stringify(value): a string goes unquoted.
StringOf(v) ==
    CASE v.t = "string" -> v.s
      [] v.t = "number" -> ToString(v.n)
      [] v.t = "null" -> "null"
      [] v.t = "boolean" -> v.s
      [] v.t = "object" -> "[object Object]"

\* JSON.stringify(value) for the value shapes above.
JSONstringify(v) ==
    CASE v.t = "string" -> Quote(v.s)
      [] v.t = "number" -> ToString(v.n)
      [] v.t = "null" -> "null"
      [] v.t = "boolean" -> v.s
      [] v.t = "object" /\ v.vt = "" -> "{}"
      [] v.t = "object" /\ v.vt = "string" ->
            "{" \o Quote(v.k) \o ":" \o Quote(v.s) \o "}"
      [] v.t = "object" /\ v.vt = "number" ->
            "{" \o Quote(v.k) \o ":" \o ToString(v.n) \o "}"

\* The JSON values a response body of this model can denote.
JsonUniverse ==
    {JObjN("id", 1), JObjS("hello", "world"), JNull, JFalse, JEmptyObj, JStr(""),
     JNum(0)}

\* Response.json(): JSON.parse of the body text; it throws on text that is
\* not JSON.
IsJsonText(text) == \E v \in JsonUniverse : JSONstringify(v) = text
JSONparse(text) == CHOOSE v \in JsonUniverse : JSONstringify(v) = text

\* ------------------------------------------------------------------ errors
\* new Error(message)
Error(message) == [name |-> "Error", message |-> message]
\* What Response.json() throws on a malformed body.
SyntaxError == [name |-> "SyntaxError", message |-> "Unexpected token in JSON"]
\* What a transport throws or rejects with.
TransportErrors ==
    {[name |-> "FetchError", message |-> "request failed"],
     [name |-> "TypeError", message |-> "Only absolute URLs are supported"]}

\* ---------------------------------------------------------------- requests
LowerCaseOf ==
    [m \in {"GET", "get", "HEAD", "Head", "head", "PUT", "put", "POST", "post",
            "DELETE", "delete"} |->
        CASE m \in {"GET", "get"} -> "get"
          [] m \in {"HEAD", "Head", "head"} -> "head"
          [] m \in {"PUT", "put"} -> "put"
          [] m \in {"POST", "post"} -> "post"
          [] m \in {"DELETE", "delete"} -> "delete"]

\* String.prototype.toLowerCase on a method name.
ToLowerCase(m) == LowerCaseOf[m]

\* String.prototype.toUpperCase on a method name.
ToUpperCase(m) ==
    CASE ToLowerCase(m) = "get" -> "GET"
      [] ToLowerCase(m) = "head" -> "HEAD"
      [] ToLowerCase(m) = "put" -> "PUT"
      [] ToLowerCase(m) = "post" -> "POST"
      [] ToLowerCase(m) = "delete" -> "DELETE"

\* RequestInit literals { method, headers } and { method, headers, body }.
InitNoBody(method, headers) ==
    [method |-> method, headers |-> headers, body |-> None]
InitBody(method, headers, body) ==
    [method |-> method, headers |-> headers, body |-> Some(body)]

\* new FetchRequest(input, init): wraps new Request(input, init), which keeps
\* the target, the headers and the body and upper-cases the method.
FetchRequest(input, init) ==
    [method |-> ToUpperCase(init.method), target |-> input,
     headers |-> init.headers, body |-> init.body]

\* The default headers of read, head, update and create.
JsonHeaders == {<<"Content-Type", "application/json">>}
\* The default headers and body of del.
EmptyHeaders == {}

\* ------------------------------------------------- the requests facades build
\* read: { method: 'get', headers }, headers defaulting to the JSON headers.
\* ReadRequest that adds the caller's headers to the default ones.
ReadRequestMerged(path, headers) ==
    FetchRequest(path,
        InitNoBody("get", JsonHeaders \cup Default(headers, EmptyHeaders)))
ReadRequest(path, headers) ==
    FetchRequest(path, InitNoBody("get", Default(headers, JsonHeaders)))
CurriedReadRequest(path, headers) ==
    FetchRequest(path, InitNoBody("get", Default(headers, JsonHeaders)))

\* head: { method: 'head', headers }.
HeadRequest(path, headers) ==
    FetchRequest(path, InitNoBody("head", Default(headers, JsonHeaders)))
CurriedHeadRequest(path, headers) ==
    FetchRequest(path, InitNoBody("head", Default(headers, JsonHeaders)))

\* update: { method: 'put', headers, body: JSON.stringify(body) }.
\* UpdateRequest with create's other method.
UpdateRequestPost(path, headers, body) ==
    FetchRequest(path,
        InitBody("post", Default(headers, JsonHeaders), JSONstringify(body)))
UpdateRequest(path, headers, body) ==
    FetchRequest(path,
        InitBody("put", Default(headers, JsonHeaders), JSONstringify(body)))
CurriedUpdateRequest(path, headers, body) ==
    FetchRequest(path,
        InitBody("put", Default(headers, JsonHeaders), JSONstringify(body)))

\* enum CreateMethod { PUT = 'put', POST = 'post' }
CreateMethod == {"put", "post"}

\* create: { method, headers, body: JSON.stringify(body) }.
CreateRequest(method, path, headers, body) ==
    FetchRequest(path,
        InitBody(method, Default(headers, JsonHeaders), JSONstringify(body)))
CurriedCreateRequest(method, path, headers, body) ==
    FetchRequest(path,
        InitBody(method, Default(headers, JsonHeaders), JSONstringify(body)))

\* del: { method: 'delete', headers, body: JSON.stringify(body) }, headers and
\* body defaulting to {}.
\* DelRequest that sends no body when the caller gave none.
DelRequestNoBody(path, headers, body) ==
    FetchRequest(path,
        IF body = None
        THEN InitNoBody("delete", Default(headers, EmptyHeaders))
        ELSE InitBody("delete", Default(headers, EmptyHeaders),
                      JSONstringify(body[1])))
DelRequest(path, headers, body) ==
    FetchRequest(path,
        InitBody("delete", Default(headers, EmptyHeaders),
                 JSONstringify(Default(body, JEmptyObj))))
\* CurriedDelRequest with the default headers of the other facades.
CurriedDelRequestJsonHeaders(path, headers, body) ==
    FetchRequest(path,
        InitBody("delete", Default(headers, JsonHeaders),
                 JSONstringify(Default(body, JEmptyObj))))
CurriedDelRequest(path, headers, body) ==
    FetchRequest(path,
        InitBody("delete", Default(headers, EmptyHeaders),
                 JSONstringify(Default(body, JEmptyObj))))

\* -------------------------------------------------------------------- http
\* Transport that is node-fetch whatever the caller injected.
TransportFetchOnly(api) == "fetch"

\* `api: HttpRequest = fetch`: the transport a call invokes.
Transport(api) == Default(api, "fetch")

\* http(), line 35: the transport is invoked once with request.request and
\* the call awaits its promise.  kind, api and args record which facade was
\* applied to what; threw is what the transport or resp.json() failed with;
\* ready is the response of a promise the transport returned already resolved.
HttpInvoke(kind, api, args, request) ==
    [kind |-> kind, api |-> api, transport |-> Transport(api), args |-> args,
     ready |-> None,
     req |-> request, pc |-> "awaitTransport", resp |-> None,
     threw |-> None, result |-> None, error |-> None,
     transportCalls |-> 1, jsonReads |-> 0]

\* NotHead without the toLowerCase().
NotHeadExactCase(request) == request.method /= "head"

\* request.request.method.toLowerCase() !== 'head'
NotHead(request) == ToLowerCase(request.method) /= "head"

\* resp.headers.get('content-type')
ContentType(resp) == resp.ctype

\* ReadsBody without the 204 test.
ReadsBodyAnyStatus(resp) == Truthy(ContentType(resp))

\* ReadsBody without the Content-Type test.
ReadsBodyAnyType(resp) == resp.status /= 204

\* ReadsBody that asks for the JSON Content-Type.
ReadsBodyJsonOnly(resp) ==
    resp.status /= 204 /\ ContentType(resp) = Some("application/json")

\* resp.status !== 204 && contentType
ReadsBody(resp) == resp.status /= 204 /\ Truthy(ContentType(resp))

\* HttpError with the status code for the status text.
HttpErrorOfStatus(resp) == Error(ToString(resp.status))

\* throw new Error(resp.statusText)
HttpError(resp) == Error(resp.statusText)

\* OnResponse that reads the body only of a response it had to wait for.
OnResponseWaitedOnly(c, resp) ==
    IF resp.ok
    THEN IF NotHead(c.req) /\ ReadsBody(resp) /\ c.ready = None
         THEN [c EXCEPT !.pc = "awaitJson", !.resp = Some(resp),
                        !.jsonReads = @ + 1]
         ELSE [c EXCEPT !.pc = "resolved", !.resp = Some(resp),
                        !.result = Some([resp |-> resp, parsedBody |-> None])]
    ELSE [c EXCEPT !.pc = "rejected", !.resp = Some(resp),
                   !.error = Some(HttpError(resp))]

\* OnResponse that tests for HEAD before it tests resp.ok.
OnResponseHeadFirst(c, resp) ==
    IF ~NotHead(c.req)
    THEN [c EXCEPT !.pc = "resolved", !.resp = Some(resp),
                   !.result = Some([resp |-> resp, parsedBody |-> None])]
    ELSE IF resp.ok
    THEN IF ReadsBody(resp)
         THEN [c EXCEPT !.pc = "awaitJson", !.resp = Some(resp),
                        !.jsonReads = @ + 1]
         ELSE [c EXCEPT !.pc = "resolved", !.resp = Some(resp),
                        !.result = Some([resp |-> resp, parsedBody |-> None])]
    ELSE [c EXCEPT !.pc = "rejected", !.resp = Some(resp),
                   !.error = Some(HttpError(resp))]

\* http(), lines 36-47, run when the transport's promise resolves with resp:
\* up to the await of resp.json(), to the return, or to the throw.
OnResponse(c, resp) ==
    IF resp.ok
    THEN IF NotHead(c.req) /\ ReadsBody(resp)
         THEN [c EXCEPT !.pc = "awaitJson", !.resp = Some(resp),
                        !.jsonReads = @ + 1]
         ELSE [c EXCEPT !.pc = "resolved", !.resp = Some(resp),
                        !.result = Some([resp |-> resp, parsedBody |-> None])]
    ELSE [c EXCEPT !.pc = "rejected", !.resp = Some(resp),
                   !.error = Some(HttpError(resp))]

\* OnTransportError that wraps the failure in a new Error.
OnTransportErrorWrapped(c, err) ==
    [c EXCEPT !.pc = "rejected", !.error = Some(Error(err.message))]

\* OnTransportError that invokes the transport again.
OnTransportErrorRetry(c, err) ==
    [c EXCEPT !.transportCalls = @ + 1]

\* http(), line 35, when the transport throws or its promise rejects: the
\* await rethrows and the async function rejects.
OnTransportError(c, err) ==
    [c EXCEPT !.pc = "rejected", !.error = Some(err)]

\* OnJsonValue that returns a new object made of the status, the headers and
\* the parsed body.
OnJsonValueFresh(c, value) ==
    [c EXCEPT !.pc = "resolved",
              !.result = Some([resp |-> [c.resp[1] EXCEPT !.statusText = ""],
                               parsedBody |-> Some(value)])]

\* OnJsonValue that attaches the value only when it is truthy.
OnJsonValueTruthyOnly(c, value) ==
    [c EXCEPT !.pc = "resolved",
              !.result = Some([resp |-> c.resp[1],
                               parsedBody |-> IF value \in {JNull, JFalse, JNum(0), JStr("")}
                                              THEN None ELSE Some(value)])]

\* http(), lines 40-45, when resp.json() resolves with value:
\* resp.parsedBody = value; return resp.
OnJsonValue(c, value) ==
    [c EXCEPT !.pc = "resolved",
              !.result = Some([resp |-> c.resp[1], parsedBody |-> Some(value)])]

\* OnJsonError that keeps the failure with the response and returns it.
OnJsonErrorKeepsEnvelope(c, err) ==
    [c EXCEPT !.pc = "resolved", !.error = Some(err),
              !.result = Some([resp |-> c.resp[1], parsedBody |-> None])]

\* OnJsonError that swallows the failure and goes on waiting.
OnJsonErrorIgnored(c, err) == c

\* http(), lines 41-43, when resp.json() rejects: catch (error) { throw error }.
OnJsonError(c, err) ==
    [c EXCEPT !.pc = "rejected", !.error = Some(err)]

\* ------------------------------------------------------------- the inputs
\* The caller: it awaits each call before it makes the next one.
Callers == {"main"}
\* The transport argument: an injected transport function.
Apis == {Some("mock")}
Paths == {"/home"}
\* The headers argument: omitted, or the caller's own headers.
HeaderArgs == {None, Some({<<"Accept", "text/html">>})}
\* The body argument of update and create: object | string | number.
BodyValues ==
    {JObjS("name", "John Henry"), JStr("John Henry")} \cup {JNum(n) : n \in 0..MaxNum}
\* The body argument of del: omitted, or a value.
DelBodyArgs == {None} \cup {Some(b) : b \in BodyValues}
\* The requests handed to http and curriedHttp: the caller built them, with
\* the method in any letter case.
RawRequests ==
    {[method |-> m, target |-> path, headers |-> EmptyHeaders, body |-> None] :
        m \in {"GET", "HEAD", "Head", "head"}, path \in Paths}

\* Response.ok of the transport's response: the status is in 200..299.
Ok(status) == status >= 200 /\ status < 300

StatusTextOf ==
    [s \in {200, 204, 304, 404} |->
        CASE s = 200 -> "OK"
          [] s = 204 -> "No Content"
          [] s = 304 -> "Not Modified"
          [] s = 404 -> "Not Found"]

\* The Content-Type response header: absent, present and empty, present with
\* the JSON type or with another type.
ContentTypes == {None, Some(""), Some("application/json"), Some("text/html")}
\* The response body text: JSON, and text that is not JSON.
BodyTexts == {"{\"id\":1}", "null", "No Content"}

\* The responses a transport's promise resolves with.
Responses ==
    {[status |-> s, statusText |-> StatusTextOf[s], ok |-> Ok(s),
      ctype |-> ct, body |-> b] :
        s \in DOMAIN StatusTextOf, ct \in ContentTypes, b \in BodyTexts}

\* What the caller passed, kept with the call.
Args(method, path, headers, body) ==
    [method |-> method, path |-> path, headers |-> headers, body |-> body]
RawArgs(request) ==
    Args(request.method, request.target, Some(request.headers), None)

\* ---------------------------------------------------------------- closures
\* curriedX(api): the closure that has captured the transport argument.
Closure(kind, api) ==
    [kind |-> kind, stage |-> 1, api |-> api, method |-> "", path |-> "",
     headers |-> None]

\* The arguments a curried facade takes after api and before its last one.
Params(kind) ==
    CASE kind = "curriedHttp" -> <<>>
      [] kind \in {"curriedRead", "curriedHead"} -> <<"path">>
      [] kind \in {"curriedUpdate", "curriedDel"} -> <<"path", "headers">>
      [] kind = "curriedCreate" -> <<"method", "path", "headers">>

\* The closure awaits the argument named p.
Awaits(c, p) == c.stage <= Len(Params(c.kind)) /\ Params(c.kind)[c.stage] = p
\* The closure awaits its last argument.
AwaitsLast(c, kind) == c.kind = kind /\ c.stage = Len(Params(kind)) + 1

\* The caller, holding no closure, takes up a curried facade and holds the
\* closure it returns.
Take(new) ==
    /\ closures = {}
    /\ closures' = {new}
    /\ Cardinality(closures') <= MaxClosures

\* The caller holds the closure an application returned, beside the ones it
\* held (keep) or in place of the one it applied.
Hold(new, applied, keep) ==
    /\ closures' = (IF keep THEN closures ELSE closures \ {applied}) \cup {new}
    /\ Cardinality(closures') <= MaxClosures

\* The surroundings of the sequential run: an injected transport.
SeqEnv ==
    [apis |-> Apis, responses |-> Responses, headers |-> HeaderArgs,
     delBodies |-> DelBodyArgs]

\* The surroundings of the run with the default client: the transport argument
\* is undefined (node-fetch is taken) or an injected transport; the transports
\* answer with a JSON or a malformed body, or 404.
DefaultApis == {None} \cup Apis
DefaultResponses ==
    {r \in Responses : /\ r.status \in {200, 404}
                       /\ r.ctype = Some("application/json")
                       /\ r.body \in {"{\"id\":1}", "No Content"}}
DefaultEnv ==
    [apis |-> DefaultApis, responses |-> DefaultResponses, headers |-> HeaderArgs,
     delBodies |-> DelBodyArgs]

\* The surroundings of the run of several callers.
ConcCallers == 1..MaxCallers
\* An injected transport that answers later and one that answers at once.
ConcApis == {Some("mock"), Some("syncMock")}
\* A JSON body and a malformed body under either Content-Type, no
\* Content-Type, and a non-success.
ConcResponses ==
    {r \in Responses :
        \/ /\ r.status = 200
           /\ r.ctype \in {Some("application/json"), Some("text/html")}
           /\ r.body /= "null"
        \/ r.status = 200 /\ r.ctype = None /\ r.body = "{\"id\":1}"
        \/ r.status = 404 /\ r.ctype = Some("application/json") /\ r.body = "{\"id\":1}"}
ConcEnv ==
    [apis |-> ConcApis, responses |-> ConcResponses, headers |-> {None},
     delBodies |-> {None}]

\* The surroundings of the run with falsy bodies: the transport answers 200 or
\* 204, with or without a Content-Type, and with a body that is the JSON text
\* of null, false, 0 or the empty string, or is not JSON.
FalsyBodyTexts == {"null", "false", "0", "\"\""}
FalsyResponses ==
    {[status |-> s, statusText |-> StatusTextOf[s], ok |-> Ok(s),
      ctype |-> ct, body |-> b] :
        s \in {200, 204}, ct \in {None, Some("application/json")},
        b \in FalsyBodyTexts \cup {"No Content"}}
FalsyEnv ==
    [apis |-> Apis, responses |-> FalsyResponses, headers |-> HeaderArgs,
     delBodies |-> DelBodyArgs]

\* The surroundings of the run that reuses closures: several callers apply
\* the closures of curriedRead and curriedDel, with no headers and with del's
\* body omitted or given; the transport answers with a JSON body, a
\* malformed body or a non-success.
ReuseResponses ==
    {r \in Responses :
        /\ r.ctype = Some("application/json")
        /\ \/ r.status = 200 /\ r.body /= "null"
           \/ r.status = 404 /\ r.body = "{\"id\":1}"}
ReuseEnv ==
    [apis |-> Apis, responses |-> ReuseResponses, headers |-> {None},
     delBodies |-> {None, Some(JStr("John Henry"))}]

\* The surroundings by name, and those of this run.
Surroundings ==
    [seq |-> SeqEnv, default |-> DefaultEnv, conc |-> ConcEnv, falsy |-> FalsyEnv,
     reuse |-> ReuseEnv]
Env == Surroundings[env]

\* The transports that answer synchronously: the promise they return is
\* already resolved with the response when http awaits it.
SyncTransports == {"syncMock"}

\* What the transport's promise holds when the transport returns it.
Answers(transport) ==
    IF transport \in SyncTransports
    THEN {Some(resp) : resp \in Env.responses}
    ELSE {None}

\* A caller that has no call in progress starts call: the transport is
\* invoked and returns its promise.
Start(call) ==
    \E who \in DOMAIN calls :
        /\ calls[who] = None
        /\ \E ready \in Answers(call.transport) :
              calls' = [calls EXCEPT ![who] = Some([call EXCEPT !.ready = ready])]

Init ==
    /\ closures = {}
    /\ calls = [who \in Callers |-> None]
    /\ env = "seq"

\* ------------------------------------------------------ uncurried facades
Http ==
    /\ \E api \in Env.apis, request \in RawRequests :
          Start(HttpInvoke("http", api, RawArgs(request), request))
    /\ UNCHANGED <<closures, env>>

Read ==
    /\ \E api \in Env.apis, path \in Paths, headers \in Env.headers :
          Start(HttpInvoke("read", api, Args("", path, headers, None),
                           ReadRequest(path, headers)))
    /\ UNCHANGED <<closures, env>>

\* head (the name Head is the Sequences operator).
HeadVerb ==
    /\ \E api \in Env.apis, path \in Paths, headers \in Env.headers :
          Start(HttpInvoke("head", api, Args("", path, headers, None),
                           HeadRequest(path, headers)))
    /\ UNCHANGED <<closures, env>>

Update ==
    /\ \E api \in Env.apis, path \in Paths, headers \in Env.headers, body \in BodyValues :
          Start(HttpInvoke("update", api, Args("", path, headers, Some(body)),
                           UpdateRequest(path, headers, body)))
    /\ UNCHANGED <<closures, env>>

Create ==
    /\ \E api \in Env.apis, method \in CreateMethod, path \in Paths,
          headers \in Env.headers, body \in BodyValues :
          Start(HttpInvoke("create", api, Args(method, path, headers, Some(body)),
                           CreateRequest(method, path, headers, body)))
    /\ UNCHANGED <<closures, env>>

Del ==
    /\ \E api \in Env.apis, path \in Paths, headers \in Env.headers, body \in Env.delBodies :
          Start(HttpInvoke("del", api, Args("", path, headers, body),
                           DelRequest(path, headers, body)))
    /\ UNCHANGED <<closures, env>>

\* -------------------------------------------------------- curried facades
\* The outer functions: each captures api and returns a closure.
CurriedHttp ==
    /\ \E api \in Env.apis : Take(Closure("curriedHttp", api))
    /\ UNCHANGED <<calls, env>>

CurriedRead ==
    /\ \E api \in Env.apis : Take(Closure("curriedRead", api))
    /\ UNCHANGED <<calls, env>>

CurriedHead ==
    /\ \E api \in Env.apis : Take(Closure("curriedHead", api))
    /\ UNCHANGED <<calls, env>>

CurriedUpdate ==
    /\ \E api \in Env.apis : Take(Closure("curriedUpdate", api))
    /\ UNCHANGED <<calls, env>>

CurriedCreate ==
    /\ \E api \in Env.apis : Take(Closure("curriedCreate", api))
    /\ UNCHANGED <<calls, env>>

CurriedDel ==
    /\ \E api \in Env.apis : Take(Closure("curriedDel", api))
    /\ UNCHANGED <<calls, env>>

\* The inner functions that take an argument which is not the last: each
\* captures it and returns the next closure.
\* (method: CreateMethod) => ...
ApplyMethod ==
    /\ \E c \in closures, method \in CreateMethod, keep \in BOOLEAN :
          /\ Awaits(c, "method")
          /\ Hold([c EXCEPT !.method = method, !.stage = @ + 1], c, keep)
    /\ UNCHANGED <<calls, env>>

\* ApplyPath that already calls http, with the default headers.
ApplyPathInvokes ==
    \E c \in closures, path \in Paths, keep \in BOOLEAN :
        /\ Awaits(c, "path")
        /\ Hold([c EXCEPT !.path = path, !.stage = @ + 1], c, keep)
        /\ Start(HttpInvoke(c.kind, c.api, Args(c.method, path, None, None),
                            CurriedReadRequest(path, None)))
        /\ UNCHANGED env

\* (path: string) => ...
ApplyPath ==
    /\ \E c \in closures, path \in Paths, keep \in BOOLEAN :
          /\ Awaits(c, "path")
          /\ Hold([c EXCEPT !.path = path, !.stage = @ + 1], c, keep)
    /\ UNCHANGED <<calls, env>>

\* (headers: HeaderInit = default) => ..., of curriedUpdate, curriedCreate and
\* curriedDel: the default is taken when the request is built.
ApplyHeaders ==
    /\ \E c \in closures, headers \in Env.headers, keep \in BOOLEAN :
          /\ Awaits(c, "headers")
          /\ Hold([c EXCEPT !.headers = headers, !.stage = @ + 1], c, keep)
    /\ UNCHANGED <<calls, env>>

\* The innermost functions: each takes the last argument, builds the request
\* and calls http.  The closure stays with the caller.
CurriedHttpApply ==
    /\ \E c \in closures, request \in RawRequests :
          /\ AwaitsLast(c, "curriedHttp")
          /\ Start(HttpInvoke("curriedHttp", c.api, RawArgs(request), request))
    /\ UNCHANGED <<closures, env>>

\* CurriedReadApply whose closure is spent by the call.
CurriedReadApplyOnce ==
    /\ \E c \in closures, headers \in Env.headers :
          /\ AwaitsLast(c, "curriedRead")
          /\ Start(HttpInvoke("curriedRead", c.api,
                              Args("", c.path, headers, None),
                              CurriedReadRequest(c.path, headers)))
          /\ closures' = closures \ {c}
    /\ UNCHANGED env

CurriedReadApply ==
    /\ \E c \in closures, headers \in Env.headers :
          /\ AwaitsLast(c, "curriedRead")
          /\ Start(HttpInvoke("curriedRead", c.api,
                              Args("", c.path, headers, None),
                              CurriedReadRequest(c.path, headers)))
    /\ UNCHANGED <<closures, env>>

CurriedHeadApply ==
    /\ \E c \in closures, headers \in Env.headers :
          /\ AwaitsLast(c, "curriedHead")
          /\ Start(HttpInvoke("curriedHead", c.api,
                              Args("", c.path, headers, None),
                              CurriedHeadRequest(c.path, headers)))
    /\ UNCHANGED <<closures, env>>

CurriedUpdateApply ==
    /\ \E c \in closures, body \in BodyValues :
          /\ AwaitsLast(c, "curriedUpdate")
          /\ Start(HttpInvoke("curriedUpdate", c.api,
                              Args("", c.path, c.headers, Some(body)),
                              CurriedUpdateRequest(c.path, c.headers, body)))
    /\ UNCHANGED <<closures, env>>

CurriedCreateApply ==
    /\ \E c \in closures, body \in BodyValues :
          /\ AwaitsLast(c, "curriedCreate")
          /\ Start(HttpInvoke("curriedCreate", c.api,
                              Args(c.method, c.path, c.headers, Some(body)),
                              CurriedCreateRequest(c.method, c.path, c.headers, body)))
    /\ UNCHANGED <<closures, env>>

CurriedDelApply ==
    /\ \E c \in closures, body \in Env.delBodies :
          /\ AwaitsLast(c, "curriedDel")
          /\ Start(HttpInvoke("curriedDel", c.api,
                              Args("", c.path, c.headers, body),
                              CurriedDelRequest(c.path, c.headers, body)))
    /\ UNCHANGED <<closures, env>>

\* The caller drops a closure it holds.
Forget ==
    /\ \E c \in closures : closures' = closures \ {c}
    /\ UNCHANGED <<calls, env>>

\* --------------------------------------------- the transport and the body
\* TransportResolve with the response kept in one place for all calls: every
\* call that awaits its transport takes it.
TransportResolveShared ==
    /\ \E who \in DOMAIN calls, resp \in Env.responses :
          /\ calls[who] /= None
          /\ calls[who][1].pc = "awaitTransport"
          /\ calls[who][1].ready \in {None, Some(resp)}
          /\ calls' = [w \in DOMAIN calls |->
                IF calls[w] /= None /\ calls[w][1].pc = "awaitTransport"
                THEN Some(OnResponse(calls[w][1], resp))
                ELSE calls[w]]
    /\ UNCHANGED <<closures, env>>

\* The transport's promise resolves with a response.
TransportResolve ==
    /\ \E who \in DOMAIN calls, resp \in Env.responses :
          /\ calls[who] /= None
          /\ calls[who][1].pc = "awaitTransport"
          /\ calls[who][1].ready \in {None, Some(resp)}
          /\ calls' = [calls EXCEPT ![who] = Some(OnResponse(calls[who][1], resp))]
    /\ UNCHANGED <<closures, env>>

\* The transport throws, or its promise rejects.
TransportReject ==
    /\ \E who \in DOMAIN calls, err \in TransportErrors :
          /\ calls[who] /= None
          /\ calls[who][1].pc = "awaitTransport"
          /\ calls[who][1].ready = None
          /\ calls' = [calls EXCEPT ![who] =
                Some(OnTransportError([calls[who][1] EXCEPT !.threw = Some(err)], err))]
    /\ UNCHANGED <<closures, env>>

\* resp.json() resolves: the body is JSON text.
JsonResolve ==
    /\ \E who \in DOMAIN calls :
          /\ calls[who] /= None
          /\ calls[who][1].pc = "awaitJson"
          /\ IsJsonText(calls[who][1].resp[1].body)
          /\ calls' = [calls EXCEPT ![who] =
                Some(OnJsonValue(calls[who][1], JSONparse(calls[who][1].resp[1].body)))]
    /\ UNCHANGED <<closures, env>>

\* resp.json() rejects: the body is not JSON text.
JsonReject ==
    /\ \E who \in DOMAIN calls :
          /\ calls[who] /= None
          /\ calls[who][1].pc = "awaitJson"
          /\ ~IsJsonText(calls[who][1].resp[1].body)
          /\ calls' = [calls EXCEPT ![who] =
                Some(OnJsonError([calls[who][1] EXCEPT !.threw = Some(SyntaxError)],
                                 SyntaxError))]
    /\ UNCHANGED <<closures, env>>

\* The caller's continuation takes the settled outcome.
Observe ==
    /\ \E who \in DOMAIN calls :
          /\ calls[who] /= None
          /\ calls[who][1].pc \in {"resolved", "rejected"}
          /\ calls' = [calls EXCEPT ![who] = None]
    /\ UNCHANGED <<closures, env>>

Next ==
    \/ Http \/ Read \/ HeadVerb \/ Update \/ Create \/ Del
    \/ CurriedHttp \/ CurriedRead \/ CurriedHead
    \/ CurriedUpdate \/ CurriedCreate \/ CurriedDel
    \/ ApplyMethod \/ ApplyPath \/ ApplyHeaders
    \/ CurriedHttpApply \/ CurriedReadApply \/ CurriedHeadApply
    \/ CurriedUpdateApply \/ CurriedCreateApply \/ CurriedDelApply
    \/ Forget
    \/ TransportResolve \/ TransportReject \/ JsonResolve \/ JsonReject
    \/ Observe

Spec == Init /\ [][Next]_vars

\* ------------------------------------------- the run with the default client
\* The sequential caller, leaving the transport argument out or injecting one.
InitDefault ==
    /\ closures = {}
    /\ calls = [who \in Callers |-> None]
    /\ env = "default"

SpecDefault == InitDefault /\ [][Next]_vars

\* ------------------------------------------------ the run with falsy bodies
InitFalsy ==
    /\ closures = {}
    /\ calls = [who \in Callers |-> None]
    /\ env = "falsy"

SpecFalsy == InitFalsy /\ [][Next]_vars

\* ------------------------------------------------- the run of several callers
InitConc ==
    /\ closures = {}
    /\ calls = [who \in ConcCallers |-> None]
    /\ env = "conc"

\* The callers read and head, the transports answer, the bodies are read and
\* the callers take the outcomes, in any order.
NextConc ==
    \/ Read \/ HeadVerb
    \/ TransportResolve \/ TransportReject \/ JsonResolve \/ JsonReject
    \/ Observe

SpecConc == InitConc /\ [][NextConc]_vars

\* ------------------------------------- the run of several callers, answered
\* The promise of the transport a call awaits settles, and so does the
\* promise of resp.json() a call awaits: the event loop then runs the call on.
TransportSettles(who) ==
    /\ TransportResolve \/ TransportReject
    /\ calls[who] /= None
    /\ calls[who][1].pc = "awaitTransport"
    /\ calls'[who] /= calls[who]
JsonSettles(who) ==
    /\ JsonResolve \/ JsonReject
    /\ calls[who] /= None
    /\ calls[who][1].pc = "awaitJson"
    /\ calls'[who] /= calls[who]

\* Several callers with the one injected transport and the responses of the
\* run that reuses closures.
InitLive ==
    /\ closures = {}
    /\ calls = [who \in ConcCallers |-> None]
    /\ env = "reuse"

SpecLive ==
    /\ InitLive
    /\ [][NextConc]_vars
    /\ \A who \in ConcCallers :
          WF_vars(TransportSettles(who)) /\ WF_vars(JsonSettles(who))

\* ------------------------------------------------ the run reusing closures
InitReuse ==
    /\ closures = {}
    /\ calls = [who \in ConcCallers |-> None]
    /\ env = "reuse"

\* The callers take up curriedRead and curriedDel, apply the closures, the
\* last one as often as they like, and take the outcomes, in any order.
NextReuse ==
    \/ CurriedRead \/ CurriedDel
    \/ ApplyPath \/ ApplyHeaders
    \/ CurriedReadApply \/ CurriedDelApply
    \/ Forget
    \/ TransportResolve \/ TransportReject \/ JsonResolve \/ JsonReject
    \/ Observe

SpecReuse == InitReuse /\ [][NextReuse]_vars

\* ------------------------------------------------------------------ claims
\* The calls in progress or settled and not yet observed.
Active == {calls[who][1] : who \in {w \in DOMAIN calls : calls[w] /= None}}

HeadMethods == {"HEAD", "Head", "head"}
AllKinds ==
    {"http", "read", "head", "update", "create", "del", "curriedHttp",
     "curriedRead", "curriedHead", "curriedUpdate", "curriedCreate", "curriedDel"}
Success(resp) == resp.status \in 200..299
Answered(c) == c.resp /= None

\* C1: a call of any facade or curried variant whose transport answered with a
\* status outside 200..299 is rejected with an Error whose message is that
\* response's status text; it returns no envelope and never reads the body.
C1_NonSuccessRejects ==
    \A c \in Active :
        (Answered(c) /\ ~Success(c.resp[1])) =>
            /\ c.kind \in AllKinds
            /\ c.pc = "rejected"
            /\ c.error = Some([name |-> "Error", message |-> c.resp[1].statusText])
            /\ c.result = None
            /\ c.threw = None
            /\ c.jsonReads = 0

C1_Witness ==
    \E c \in Active :
        /\ c.kind = "curriedDel"
        /\ Answered(c)
        /\ c.resp[1].status = 404
        /\ c.pc = "rejected"
        /\ c.error = Some([name |-> "Error", message |-> "Not Found"])

\* C2: a call whose request method is HEAD, in any letter case, never invokes
\* the JSON body read, and on a success response it resolves with an envelope
\* that has no parsedBody, whatever the status, Content-Type and body.
C2_HeadNeverReadsBody ==
    \A c \in Active :
        c.req.method \in HeadMethods =>
            /\ c.jsonReads = 0
            /\ c.pc /= "awaitJson"
            /\ (Answered(c) /\ Success(c.resp[1])) =>
                  /\ c.pc = "resolved"
                  /\ c.result = Some([resp |-> c.resp[1], parsedBody |-> None])

C2_Witness ==
    \E c \in Active :
        /\ c.kind = "curriedHead"
        /\ c.req.method = "HEAD"
        /\ Answered(c)
        /\ c.resp[1].status = 200
        /\ c.resp[1].ctype = Some("application/json")
        /\ c.resp[1].body = "{\"id\":1}"
        /\ c.pc = "resolved"
        /\ c.result[1].parsedBody = None

\* C3: a call whose request is not HEAD and whose response has status 204
\* resolves with an envelope that has no parsedBody and never invokes the
\* JSON body read, whatever the Content-Type and body.
C3_NoContentNoBody ==
    \A c \in Active :
        (c.req.method \notin HeadMethods /\ Answered(c) /\ c.resp[1].status = 204) =>
            /\ c.pc = "resolved"
            /\ c.result = Some([resp |-> c.resp[1], parsedBody |-> None])
            /\ c.jsonReads = 0

C3_Witness ==
    \E c \in Active :
        /\ c.kind = "create"
        /\ c.req.method = "POST"
        /\ Answered(c)
        /\ c.resp[1].status = 204
        /\ c.resp[1].ctype = Some("application/json")
        /\ c.resp[1].body = "{\"id\":1}"
        /\ c.pc = "resolved"
        /\ c.result[1].parsedBody = None

\* C4: a call whose request is not HEAD and whose success response is not 204
\* and has no Content-Type header resolves with an envelope that has no
\* parsedBody and never invokes the JSON body read, also when the body is
\* JSON text.
C4_NoContentTypeNoBody ==
    \A c \in Active :
        (/\ c.req.method \notin HeadMethods
         /\ Answered(c)
         /\ Success(c.resp[1])
         /\ c.resp[1].status /= 204
         /\ c.resp[1].ctype = None) =>
            /\ c.pc = "resolved"
            /\ c.result = Some([resp |-> c.resp[1], parsedBody |-> None])
            /\ c.jsonReads = 0

C4_Witness ==
    \E c \in Active :
        /\ c.kind = "create"
        /\ Answered(c)
        /\ c.resp[1].status = 200
        /\ c.resp[1].ctype = None
        /\ c.resp[1].body = "{\"id\":1}"
        /\ c.pc = "resolved"
        /\ c.result[1].parsedBody = None

JsonBodies == {"{\"id\":1}", "null"}
ParsedOf(text) == IF text = "null" THEN JNull ELSE JObjN("id", 1)

\* Not HEAD, a success, not 204.
Qualifies(c) ==
    /\ c.req.method \notin HeadMethods
    /\ Answered(c)
    /\ Success(c.resp[1])
    /\ c.resp[1].status /= 204

\* C5: a call whose request is not HEAD and whose success response is not 204,
\* has a Content-Type header and a JSON body resolves, once the body read has
\* settled, with an envelope whose parsedBody is the parsed value of the body.
C5_ContentTypePresentParses ==
    \A c \in Active :
        (/\ Qualifies(c)
         /\ c.resp[1].ctype /= None
         /\ c.resp[1].body \in JsonBodies
         /\ c.pc /= "awaitJson") =>
            /\ c.pc = "resolved"
            /\ c.result =
                  Some([resp |-> c.resp[1],
                        parsedBody |-> Some(ParsedOf(c.resp[1].body))])

\* C6: in every envelope a call returns, parsedBody is present exactly when the
\* response is a success, the request is not HEAD, the status is not 204 and
\* the Content-Type header is present; when present it is the whole parsed
\* value of the body.
C6_ParsedBodyIffPolicy ==
    \A c \in Active :
        c.pc = "resolved" =>
            /\ c.result /= None
            /\ (c.result[1].parsedBody /= None) <=>
                  (Qualifies(c) /\ c.resp[1].ctype /= None)
            /\ (c.result[1].parsedBody /= None) =>
                  c.result[1].parsedBody = Some(ParsedOf(c.resp[1].body))

CurriedKinds ==
    {"curriedHttp", "curriedRead", "curriedHead", "curriedUpdate", "curriedCreate",
     "curriedDel"}

\* C7: a step that applies a curried facade to an argument that is not its
\* last changes the closures the caller holds and nothing else: no call is
\* started, no transport is invoked.  A call of a curried facade starts only
\* in a step that applies a held closure, which has every argument but the
\* last, to its last argument.
C7_PartialApplicationInvokesNothing ==
    [][/\ closures' /= closures => calls' = calls
       /\ \A who \in Callers :
             (/\ calls[who] = None
              /\ calls'[who] /= None
              /\ calls'[who][1].kind \in CurriedKinds) =>
                /\ closures' = closures
                /\ \E c \in closures :
                      /\ AwaitsLast(c, calls'[who][1].kind)
                      /\ Default(c.api, "fetch") = calls'[who][1].transport
                      /\ c.kind /= "curriedHttp" => c.path = calls'[who][1].args.path
                      /\ calls'[who][1].transportCalls = 1]_vars

C7_Witness ==
    /\ \A who \in Callers : calls[who] = None
    /\ \E c \in closures : c.kind = "curriedCreate" /\ c.stage = 4

BodyTextOf(v) ==
    CASE v = JObjS("name", "John Henry") -> "{\"name\":\"John Henry\"}"
      [] v = JStr("John Henry") -> "\"John Henry\""
      [] v.t = "number" -> ToString(v.n)

\* C8: the request the transport receives from create, update, del and their
\* curried forms has as body the JSON text of the body value the caller
\* supplied, whatever headers the caller declared.
C8_BodyIsJsonText ==
    \A c \in Active :
        (/\ c.kind \in {"create", "update", "del", "curriedCreate", "curriedUpdate",
                        "curriedDel"}
         /\ c.args.body /= None) =>
            /\ c.transportCalls = 1
            /\ c.req.body = Some(BodyTextOf(c.args.body[1]))

C8_Witness ==
    \E c \in Active :
        /\ c.kind = "curriedUpdate"
        /\ c.pc = "awaitTransport"
        /\ c.args.headers = Some({<<"Accept", "text/html">>})
        /\ c.args.body = Some(JStr("John Henry"))
        /\ c.req.body = Some("\"John Henry\"")

\* C9: a call whose request is not HEAD and whose success response is not 204,
\* has a Content-Type header and a body that is not JSON is rejected, once the
\* response is handled, with the failure of the JSON body read; it returns no
\* envelope.
C9_ParseFailurePropagates ==
    \A c \in Active :
        (/\ Qualifies(c)
         /\ c.resp[1].ctype /= None
         /\ c.resp[1].body \notin JsonBodies
         /\ c.pc /= "awaitJson") =>
            /\ c.pc = "rejected"
            /\ c.threw = Some(SyntaxError)
            /\ c.error = c.threw
            /\ c.result = None

\* C10: a call of any facade or curried variant whose transport failed is
\* rejected with the transport's own error; the transport was invoked once,
\* the JSON body read never, and no envelope is returned.
C10_TransportFailurePropagates ==
    \A c \in Active :
        (c.threw /= None /\ ~Answered(c)) =>
            /\ c.kind \in AllKinds
            /\ c.threw[1] \in TransportErrors
            /\ c.pc = "rejected"
            /\ c.error = c.threw
            /\ c.result = None
            /\ c.transportCalls = 1
            /\ c.jsonReads = 0

C10_Witness ==
    \E c \in Active :
        /\ c.kind = "curriedCreate"
        /\ ~Answered(c)
        /\ c.pc = "rejected"
        /\ c.error = Some([name |-> "TypeError",
                           message |-> "Only absolute URLs are supported"])

\* C11: a call of any facade or curried variant is, while awaited, without
\* outcome, and ends either resolved with an envelope and no error, or
\* rejected with an error and no envelope, never both: the error is the
\* transport's own failure, the Error of a non-success response's status
\* text, or the failure of the JSON body read; a settled outcome stays as it
\* is until the caller takes it.
Pending(c) == c.pc \in {"awaitTransport", "awaitJson"}
Settled(c) == c.pc \in {"resolved", "rejected"}
OneOutcome(c) ==
    /\ Pending(c) \/ Settled(c)
    /\ Pending(c) => c.result = None /\ c.error = None
    /\ c.pc = "resolved" =>
          /\ c.result /= None
          /\ DOMAIN c.result[1] = {"resp", "parsedBody"}
          /\ c.error = None
    /\ c.pc = "rejected" =>
          /\ c.error /= None
          /\ c.result = None
          /\ \/ ~Answered(c) /\ c.error[1] \in TransportErrors
             \/ /\ Answered(c) /\ ~Success(c.resp[1])
                /\ c.error[1] = [name |-> "Error", message |-> c.resp[1].statusText]
             \/ /\ Answered(c) /\ Success(c.resp[1])
                /\ c.error[1] = [name |-> "SyntaxError",
                                 message |-> "Unexpected token in JSON"]
C11_ExactlyOneOutcome ==
    [][/\ \A c \in Active' : OneOutcome(c)
       /\ \A who \in DOMAIN calls :
             (calls[who] /= None /\ Settled(calls[who][1])) =>
                 calls'[who] \in {calls[who], None}]_vars

C11_Witness ==
    \E c \in Active :
        /\ c.kind = "update"
        /\ Answered(c)
        /\ Success(c.resp[1])
        /\ c.pc = "rejected"
        /\ c.threw = Some(SyntaxError)
        /\ c.result = None

\* The request the uncurried facade builds from the arguments of a call of
\* its curried form.
UncurriedRequest(c) ==
    CASE c.kind = "curriedHttp" ->
            [method |-> c.args.method, target |-> c.args.path,
             headers |-> c.args.headers[1], body |-> None]
      [] c.kind = "curriedRead" -> ReadRequest(c.args.path, c.args.headers)
      [] c.kind = "curriedHead" -> HeadRequest(c.args.path, c.args.headers)
      [] c.kind = "curriedUpdate" ->
            UpdateRequest(c.args.path, c.args.headers, c.args.body[1])
      [] c.kind = "curriedCreate" ->
            CreateRequest(c.args.method, c.args.path, c.args.headers, c.args.body[1])
      [] c.kind = "curriedDel" ->
            DelRequest(c.args.path, c.args.headers, c.args.body)

\* The outcome of a call as its request method, the transport's response or
\* failure and the response's body decide it, whichever facade made the call:
\* none while the transport or the body read is awaited.
OutcomeOf(method, resp, threw, awaited) ==
    CASE awaited -> [result |-> None, error |-> None]
      [] resp = None -> [result |-> None, error |-> threw]
      [] ~Success(resp[1]) ->
            [result |-> None,
             error |-> Some([name |-> "Error", message |-> resp[1].statusText])]
      [] OTHER ->
            IF \/ method \in HeadMethods
               \/ resp[1].status = 204
               \/ resp[1].ctype \in {None, Some("")}
            THEN [result |-> Some([resp |-> resp[1], parsedBody |-> None]),
                  error |-> None]
            ELSE IF resp[1].body \in JsonBodies
            THEN [result |-> Some([resp |-> resp[1],
                                   parsedBody |-> Some(ParsedOf(resp[1].body))]),
                  error |-> None]
            ELSE [result |-> None,
                  error |-> Some([name |-> "SyntaxError",
                                  message |-> "Unexpected token in JSON"])]
Outcome(c) == [result |-> c.result, error |-> c.error]

\* The arguments a held closure has captured are a prefix of api, [method,]
\* path, headers: path only after create's method, headers only after path.
CapturedInOrder(cl) ==
    /\ cl.method /= "" => cl.kind = "curriedCreate"
    /\ cl.path /= "" => (cl.kind = "curriedCreate" => cl.method /= "")
    /\ cl.headers /= None => cl.path /= ""
    /\ cl.stage = 1 => cl.method = "" /\ cl.path = "" /\ cl.headers = None

\* C12: a call of a fully applied curried facade hands its transport the
\* request (method, target, headers, body) that the uncurried facade builds
\* from the same path, headers, body and, for create, method, and has the
\* outcome that the request method and the transport's answer decide for a
\* call of any facade; the closures capture api, [method,] path, headers in
\* that order, the last argument making the call.
C12_CurriedEqualsUncurried ==
    /\ \A cl \in closures : CapturedInOrder(cl)
    /\ \A c \in Active :
          /\ c.kind \in CurriedKinds => c.req = UncurriedRequest(c)
          /\ c.transport = (IF c.api = None THEN "fetch" ELSE c.api[1])
          /\ Outcome(c) = OutcomeOf(c.req.method, c.resp, c.threw, Pending(c))

C12_Witness ==
    \E c \in Active :
        /\ c.kind = "curriedCreate"
        /\ c.args.method = "post"
        /\ c.args.headers = None
        /\ c.req = [method |-> "POST", target |-> "/home", headers |-> JsonHeaders,
                    body |-> Some("{\"name\":\"John Henry\"}")]
        /\ c.pc = "resolved"
        /\ c.result[1].parsedBody = Some(JObjN("id", 1))

\* The method a facade's request carries: fixed, or for create the one the
\* caller selected.
MethodOf(c) ==
    CASE c.kind \in {"read", "curriedRead"} -> "GET"
      [] c.kind \in {"head", "curriedHead"} -> "HEAD"
      [] c.kind \in {"update", "curriedUpdate"} -> "PUT"
      [] c.kind \in {"del", "curriedDel"} -> "DELETE"
      [] c.kind \in {"create", "curriedCreate"} ->
            IF c.args.method = "put" THEN "PUT" ELSE "POST"
VerbKinds == AllKinds \ {"http", "curriedHttp"}

\* C13: the request the transport receives from read is a GET, from head a
\* HEAD, from update a PUT, from del a DELETE and from create the PUT or POST
\* the caller selected, in the curried forms too and whatever the path, the
\* headers and the body; the requests of read and head carry no body.
C13_FixedMethodPerFacade ==
    \A c \in Active :
        c.kind \in VerbKinds =>
            /\ c.req.method = MethodOf(c)
            /\ c.kind \in {"create", "curriedCreate"} => c.args.method \in {"put", "post"}
            /\ c.kind \in {"read", "curriedRead", "head", "curriedHead"} =>
                  c.req.body = None
            /\ c.req.target = c.args.path

C13_Witness ==
    \E c \in Active :
        /\ c.kind = "create"
        /\ c.args.method = "put"
        /\ c.args.headers /= None
        /\ c.args.body = Some(JStr("John Henry"))
        /\ c.req.method = "PUT"

\* C14: the request the transport receives from read, head, create, update
\* and their curried forms carries, when the caller omitted the headers
\* argument, exactly the one header Content-Type: application/json, and when
\* the caller supplied headers, exactly those, without the default.
C14_DefaultJsonHeaders ==
    \A c \in Active :
        c.kind \in VerbKinds \ {"del", "curriedDel"} =>
            /\ c.args.headers = None =>
                  c.req.headers = {<<"Content-Type", "application/json">>}
            /\ c.args.headers /= None => c.req.headers = c.args.headers[1]

C14_Witness ==
    \E c \in Active :
        /\ c.kind = "curriedUpdate"
        /\ c.args.headers = None
        /\ c.req.headers = {<<"Content-Type", "application/json">>}
        /\ c.req.body /= None

InvokesGiven(c) ==
    /\ c.transportCalls = 1
    /\ c.api = None => c.transport = "fetch"
    /\ c.api /= None => c.transport = c.api[1] /\ c.transport /= "fetch"
C16_DefaultTransport ==
    [][/\ \A c \in Active' : c.kind \in AllKinds /\ InvokesGiven(c)
       /\ \A who \in DOMAIN calls :
             (/\ calls[who] = None
              /\ calls'[who] /= None
              /\ calls'[who][1].kind \in CurriedKinds) =>
                 \E cl \in closures :
                     /\ AwaitsLast(cl, calls'[who][1].kind)
                     /\ cl.api = calls'[who][1].api]_vars

C16_Witness ==
    \E c \in Active :
        /\ c.kind = "curriedHead"
        /\ c.api = None
        /\ c.transport = "fetch"
        /\ c.pc = "resolved"

\* C17: with several calls in flight, in every order of the transports'
\* answers and the body reads, each call's outcome is the one its own
\* request method and its own response or failure decide, and a step that
\* changes one call changes no other call and nothing else: no state is
\* written by one call and read by another.
C17_CallsIndependent ==
    [][/\ \A c \in Active' :
             Outcome(c) = OutcomeOf(c.req.method, c.resp, c.threw, Pending(c))
       /\ \A who \in DOMAIN calls :
             calls'[who] /= calls[who] =>
                 /\ \A other \in DOMAIN calls \ {who} : calls'[other] = calls[other]
                 /\ closures' = closures
                 /\ env' = env]_vars

C17_Witness ==
    \E a \in DOMAIN calls, b \in DOMAIN calls :
        /\ a /= b
        /\ calls[a] /= None
        /\ calls[b] /= None
        /\ calls[a][1].req = calls[b][1].req
        /\ calls[a][1].pc = "awaitJson"
        /\ calls[b][1].pc = "rejected"
        /\ calls[b][1].resp /= None
        /\ calls[b][1].resp[1].status = 404

\* C18: two calls whose requests have the same method and whose transports,
\* one answering at once and one later, gave equal responses have, once
\* settled, the same outcome; the outcome of every call is the one the
\* request method and the response decide.
C18_SameResponseSameOutcome ==
    /\ \A c \in Active :
          Answered(c) =>
              Outcome(c) = OutcomeOf(c.req.method, c.resp, None, Pending(c))
    /\ \A c1 \in Active, c2 \in Active :
          (/\ c1.req.method = c2.req.method
           /\ Answered(c1)
           /\ c1.resp = c2.resp
           /\ Settled(c1)
           /\ Settled(c2)) =>
              /\ c1.pc = c2.pc
              /\ c1.result = c2.result
              /\ c1.error = c2.error

C18_Witness ==
    \E c1 \in Active, c2 \in Active :
        /\ c1.transport \in SyncTransports
        /\ c1.ready /= None
        /\ c2.transport \notin SyncTransports
        /\ c1.req = c2.req
        /\ c1.resp = c2.resp
        /\ c1.pc = "resolved"
        /\ c2.pc = "resolved"
        /\ c1.result[1].parsedBody = Some(JObjN("id", 1))
        /\ c2.result = c1.result

\* The steps of one call: invoked, then answered (to the body read or to an
\* outcome) or failed, then the body read settled, then taken by the caller.
CallStep(before, after) ==
    \/ /\ before = None
       /\ after /= None
       /\ after[1].pc = "awaitTransport"
       /\ after[1].resp = None
       /\ after[1].jsonReads = 0
    \/ /\ before /= None
       /\ after /= None
       /\ after[1].transportCalls = before[1].transportCalls
       /\ \/ /\ before[1].pc = "awaitTransport"
             /\ after[1].pc = "awaitJson"
             /\ Answered(after[1])
             /\ after[1].jsonReads = 1
          \/ /\ before[1].pc = "awaitTransport"
             /\ Settled(after[1])
             /\ after[1].jsonReads = 0
          \/ /\ before[1].pc = "awaitJson"
             /\ Settled(after[1])
             /\ after[1].resp = before[1].resp
             /\ after[1].jsonReads = 1
    \/ /\ before /= None
       /\ Settled(before[1])
       /\ after = None

\* C19: a call invokes its transport once, when it starts; then, only after
\* the response has arrived, it reads that response's JSON body at most
\* once; then it settles; whether it resolves or rejects, it never invokes
\* the transport again.
C19_OneInvocationThenRead ==
    [][/\ \A c \in Active' :
             /\ c.transportCalls = 1
             /\ c.jsonReads \in {0, 1}
             /\ c.jsonReads = 1 => Answered(c)
             /\ c.pc = "awaitTransport" => ~Answered(c) /\ c.jsonReads = 0
       /\ \A who \in DOMAIN calls :
             calls'[who] /= calls[who] => CallStep(calls[who], calls'[who])]_vars

C19_Witness ==
    \E c \in Active :
        /\ c.kind = "curriedUpdate"
        /\ c.transportCalls = 1
        /\ c.jsonReads = 1
        /\ c.pc = "rejected"
        /\ c.threw = Some(SyntaxError)

\* C20: the envelope a resolved call returns is the transport's response
\* with its status, status text, headers and body as the transport gave
\* them and with nothing but parsedBody added; for a HEAD request, a 204
\* response and a response without a Content-Type value it has no parsedBody:
\* it is the response unchanged.
C20_EnvelopeIsResponse ==
    \A c \in Active :
        c.pc = "resolved" =>
            /\ Answered(c)
            /\ c.resp[1] \in Env.responses
            /\ DOMAIN c.result[1] = {"resp", "parsedBody"}
            /\ c.result[1].resp.status = c.resp[1].status
            /\ c.result[1].resp.statusText = c.resp[1].statusText
            /\ c.result[1].resp.ctype = c.resp[1].ctype
            /\ c.result[1].resp = c.resp[1]
            /\ (\/ c.req.method \in HeadMethods
                \/ c.resp[1].status = 204
                \/ c.resp[1].ctype \in {None, Some("")}) =>
                   c.result[1].parsedBody = None

C20_Witness ==
    \E c \in Active :
        /\ c.kind = "curriedCreate"
        /\ c.req.method = "POST"
        /\ c.pc = "resolved"
        /\ c.result[1].resp.status = 200
        /\ c.result[1].resp.statusText = "OK"
        /\ c.result[1].resp.ctype = Some("application/json")
        /\ c.result[1].parsedBody = Some(JObjN("id", 1))

\* The value a falsy JSON body text denotes.
FalsyValueOf(text) ==
    CASE text = "null" -> [t |-> "null", k |-> "", vt |-> "", s |-> "", n |-> 0]
      [] text = "false" -> [t |-> "boolean", k |-> "", vt |-> "", s |-> "false", n |-> 0]
      [] text = "0" -> [t |-> "number", k |-> "", vt |-> "", s |-> "", n |-> 0]
      [] text = "\"\"" -> [t |-> "string", k |-> "", vt |-> "", s |-> "", n |-> 0]

\* C21: a resolved call whose request is not HEAD and whose success response
\* is not 204 and has a Content-Type has, when the body is the JSON text of
\* null, false, 0 or the empty string, a parsedBody that is set, to that
\* value; a resolved call whose response is 204 or has no Content-Type has
\* parsedBody unset; the set falsy value is never the unset one.
C21_FalsyIsNotUnset ==
    \A c \in Active :
        c.pc = "resolved" =>
            /\ (/\ Qualifies(c)
                /\ c.resp[1].ctype = Some("application/json")
                /\ c.resp[1].body \in {"null", "false", "0", "\"\""}) =>
                   /\ c.result[1].parsedBody /= None
                   /\ c.result[1].parsedBody = <<FalsyValueOf(c.resp[1].body)>>
                   /\ c.jsonReads = 1
            /\ (c.resp[1].status = 204 \/ c.resp[1].ctype = None) =>
                   /\ c.result[1].parsedBody = None
                   /\ c.jsonReads = 0

C21_Witness ==
    \E c \in Active :
        /\ c.kind = "read"
        /\ c.pc = "resolved"
        /\ c.resp[1].status = 200
        /\ c.resp[1].body = "false"
        /\ c.result[1].parsedBody /= None
        /\ c.result[1].parsedBody[1].t = "boolean"

\* C22: a call whose request method is HEAD, in any letter case, and whose
\* response is not a success is rejected with an Error whose message is the
\* response's status text, as a call of any other method is; it does not
\* resolve with an envelope.
C22_HeadFailureRejects ==
    \A c \in Active :
        (c.req.method \in HeadMethods /\ Answered(c) /\ ~Success(c.resp[1])) =>
            /\ c.pc = "rejected"
            /\ c.result = None
            /\ c.error = Some([name |-> "Error", message |-> c.resp[1].statusText])
            /\ Outcome(c) = OutcomeOf("GET", c.resp, None, FALSE)
            /\ c.jsonReads = 0

C22_Witness ==
    \E c \in Active :
        /\ c.kind = "head"
        /\ c.req.method = "HEAD"
        /\ Answered(c)
        /\ c.resp[1].status = 404
        /\ c.pc = "rejected"
        /\ c.error = Some([name |-> "Error", message |-> "Not Found"])
        /\ c.result = None

\* The response has a Content-Type header with a non-empty value.
Typed(resp) == resp.ctype /= None /\ resp.ctype[1] /= ""

\* C23: a settled call whose request is not HEAD and whose success response
\* is not 204 and has a Content-Type with a non-empty value, whichever value,
\* has read the body as JSON: it resolved with the parsed value when the body
\* is JSON and was rejected with the parse failure when it is not; two such
\* calls whose responses differ only in the Content-Type value have the same
\* parsedBody or the same failure.
C23_ContentTypeValueIgnored ==
    /\ \A c \in Active :
          (Qualifies(c) /\ Typed(c.resp[1]) /\ Settled(c)) =>
              /\ c.jsonReads = 1
              /\ c.resp[1].body \in JsonBodies =>
                    /\ c.pc = "resolved"
                    /\ c.result[1].parsedBody = Some(ParsedOf(c.resp[1].body))
              /\ c.resp[1].body \notin JsonBodies =>
                    /\ c.pc = "rejected"
                    /\ c.error = Some([name |-> "SyntaxError",
                                       message |-> "Unexpected token in JSON"])
    /\ \A c1 \in Active, c2 \in Active :
          (/\ Qualifies(c1) /\ Typed(c1.resp[1]) /\ Settled(c1)
           /\ Qualifies(c2) /\ Typed(c2.resp[1]) /\ Settled(c2)
           /\ c1.resp[1].status = c2.resp[1].status
           /\ c1.resp[1].body = c2.resp[1].body) =>
              /\ c1.pc = c2.pc
              /\ c1.error = c2.error
              /\ c1.pc = "resolved" =>
                    c1.result[1].parsedBody = c2.result[1].parsedBody

C23_Witness ==
    \E c1 \in Active, c2 \in Active :
        /\ c1.req.method = "GET"
        /\ c2.req.method = "GET"
        /\ c1.resp /= None
        /\ c2.resp /= None
        /\ c1.resp[1].ctype = Some("application/json")
        /\ c2.resp[1].ctype = Some("text/html")
        /\ c1.resp[1].status = 200
        /\ c2.resp[1] = [c1.resp[1] EXCEPT !.ctype = Some("text/html")]
        /\ c1.pc = "resolved"
        /\ c2.pc = "resolved"
        /\ c2.result[1].parsedBody = Some(JObjN("id", 1))
        /\ c1.result[1].parsedBody = c2.result[1].parsedBody

\* The closure cl, applied to its last argument, made the call c.
MadeBy(cl, c) ==
    /\ AwaitsLast(cl, c.kind)
    /\ cl.api = c.api
    /\ cl.method = c.args.method
    /\ cl.path = c.args.path
    /\ c.kind = "curriedDel" => cl.headers = c.args.headers
InFlight == {who \in DOMAIN calls : calls[who] /= None}

\* C24: a step that applies a held closure of a curried facade to its last
\* argument starts one call, which invokes the transport once, and leaves the
\* closure held as it was, to be applied again; no other step starts a call;
\* the requests of the calls made from one closure with the same last
\* argument are equal in method, target, headers and body; and the outcome
\* of each call is the one its own response or failure decides, in whatever
\* order the answers arrive.
C24_ClosureReusable ==
    [][/\ \A who \in DOMAIN calls :
             (calls[who] = None /\ calls'[who] /= None) =>
                 /\ calls'[who][1].kind \in CurriedKinds
                 /\ calls'[who][1].transportCalls = 1
                 /\ calls'[who][1].pc = "awaitTransport"
                 /\ closures' = closures
                 /\ \E cl \in closures' : MadeBy(cl, calls'[who][1])
                 /\ InFlight' = InFlight \cup {who}
                 /\ \A other \in InFlight : calls'[other] = calls[other]
       /\ \A c \in Active', d \in Active' :
             (c.kind = d.kind /\ c.api = d.api /\ c.args = d.args) =>
                 /\ c.req.method = d.req.method
                 /\ c.req.target = d.req.target
                 /\ c.req.headers = d.req.headers
                 /\ c.req.body = d.req.body
       /\ \A c \in Active' :
             /\ c.transportCalls = 1
             /\ Outcome(c) = OutcomeOf(c.req.method, c.resp, c.threw, Pending(c))]_vars

C24_Witness ==
    \E a \in InFlight, b \in InFlight, cl \in closures :
        /\ a /= b
        /\ calls[a][1].kind = "curriedRead"
        /\ MadeBy(cl, calls[a][1])
        /\ MadeBy(cl, calls[b][1])
        /\ calls[a][1].req = calls[b][1].req
        /\ calls[a][1].pc = "resolved"
        /\ calls[a][1].result[1].parsedBody = Some(JObjN("id", 1))
        /\ calls[b][1].pc = "rejected"
        /\ calls[b][1].resp /= None
        /\ calls[b][1].resp[1].status = 404

\* C25: when the promises a call awaits settle, the call settles: a call in
\* flight leads to that call resolved or rejected.  It settles once: the
\* outcome stays as it is until the caller takes it.  There is no timeout: a
\* call that awaits its transport is left alone by every step but the
\* transport's answer or failure.
C25_SettlesWhenAnswered ==
    /\ \A who \in ConcCallers :
          (calls[who] /= None) ~> (calls[who] /= None /\ Settled(calls[who][1]))
    /\ [][\A who \in DOMAIN calls :
             /\ (calls[who] /= None /\ Settled(calls[who][1])) =>
                    calls'[who] \in {calls[who], None}
             /\ (/\ calls[who] /= None
                 /\ calls[who][1].pc = "awaitTransport"
                 /\ calls'[who] /= calls[who]) =>
                    /\ calls'[who] /= None
                    /\ Answered(calls'[who][1]) \/ calls'[who][1].threw /= None]_vars

C25_Witness ==
    \E a \in InFlight, b \in InFlight :
        /\ calls[a][1].kind = "read"
        /\ calls[a][1].jsonReads = 1
        /\ calls[a][1].pc = "rejected"
        /\ calls[a][1].threw = Some(SyntaxError)
        /\ calls[b][1].kind = "head"
        /\ calls[b][1].pc = "awaitTransport"

====
